---- MODULE Spec2Model ----
(***************************************************************************)
(* PubMedScraper (src/main.py, src/config.py): the query builder, the      *)
(* record normalizer and the run loop that feeds the Excel sink.           *)
(*                                                                         *)
(* Representation.  A Python str is a tuple of one-character strings, so   *)
(* that indexing, regular-expression search, substring test and split are  *)
(* computed on characters.  A MEDLINE value is a tagged value: absent, a   *)
(* str, or a list of str (what Bio.Medline.parse produces).  A PubMed      *)
(* query is the token sequence of the string construct_query builds:       *)
(* parentheses, the operators AND / OR / NOT and the quoted, tagged terms  *)
(* between them; journal names hold neither parentheses nor quotes, so a   *)
(* journal term is one token that carries the name verbatim.               *)
(***************************************************************************)
EXTENDS Integers, Sequences, FiniteSets, TLC

VARIABLES
    pc,            \* where run() stands
    i,             \* how many entries of config.JOURNALS the for loop has taken
    journal,       \* the loop variable of run()
    query,         \* construct_query(journal)
    pmid_list,     \* fetch_records: the IdList esearch returned
    records,       \* run(): the list fetch_records returned
    r,             \* index of the next record of the inner for loop
    all_data,      \* self.all_data
    excel_file,    \* the file at self.excel_filename
    base,          \* history: all_data when the current journal was taken
    searched,      \* history: the journals esearch was called for, in order
    esearch_calls, \* history: esearch calls made for the current journal
    efetch_calls,  \* history: efetch calls made for the current journal
    failed,        \* history: a service raised for the current journal
    sink_calls     \* history: the argument of every update_excel call

vars == <<pc, i, journal, query, pmid_list, records, r, all_data, excel_file,
          base, searched, esearch_calls, efetch_calls, failed, sink_calls>>

(***************************************************************************)
(* Strings                                                                 *)
(***************************************************************************)
UpperLetters == <<"A", "B", "C", "D", "E", "F", "G", "H", "I", "J", "K", "L", "M", "N", "O", "P", "Q", "R", "S", "T", "U", "V", "W", "X", "Y", "Z">>

LowerLetters == <<"a", "b", "c", "d", "e", "f", "g", "h", "i", "j", "k", "l", "m", "n", "o", "p", "q", "r", "s", "t", "u", "v", "w", "x", "y", "z">>

\* str.lower() on one ASCII character
LowerChar(c) ==
    IF \E k \in DOMAIN UpperLetters : UpperLetters[k] = c
    THEN LowerLetters[CHOOSE k \in DOMAIN UpperLetters : UpperLetters[k] = c]
    ELSE c

\* str.upper() on one ASCII character
UpperChar(c) ==
    IF \E k \in DOMAIN LowerLetters : LowerLetters[k] = c
    THEN UpperLetters[CHOOSE k \in DOMAIN LowerLetters : LowerLetters[k] = c]
    ELSE c

\* str.lower()
Lower(s) == [k \in 1..Len(s) |-> LowerChar(s[k])]

(***************************************************************************)
(* config.py: the clause literals, as token sequences                      *)
(***************************************************************************)
Tok(kind) == [k |-> kind, txt |-> "", name |-> <<>>]

Term(text) == [k |-> "term", txt |-> text, name |-> <<>>]

LP == Tok("(")

RP == Tok(")")

AND == Tok("AND")

OR == Tok("OR")

NOT == Tok("NOT")

RCT_QUERY ==
    << LP,
       Term("\"Randomized Controlled Trial\"[Publication Type]"), OR,
       Term("\"Randomized Controlled Trials as Topic\"[MeSH Terms]"), OR,
       Term("\"Random Allocation\"[MeSH Terms]"), OR,
       Term("\"randomized\"[Title/Abstract]"), OR,
       Term("\"randomised\"[Title/Abstract]"), OR,
       Term("\"randomly\"[Title/Abstract]"), RP >>

CRITICAL_QUERY ==
    << LP,
       Term("\"critical care\"[MeSH Terms]"), OR,
       Term("\"intensive care units\"[MeSH Terms]"), OR,
       Term("\"critical illness\"[MeSH Terms]"), OR,
       Term("\"ICU\"[Title/Abstract]"), OR,
       Term("\"high dependency unit*\"[Title/Abstract]"), OR,
       Term("\"respiration, artificial\"[MeSH Terms]"), OR,
       Term("\"intensive care\"[Title/Abstract]"), OR,
       Term("\"intensive care unit\"[Title/Abstract]"), OR,
       Term("\"critical illness\"[Title/Abstract]"), OR,
       Term("\"Critical Care\"[Title/Abstract]"), OR,
       Term("\"critical ill*\"[Title/Abstract]"), OR,
       Term("\"Intensive therapy\"[Title/Abstract]"), OR,
       Term("\"mechanical ventilation\"[Title/Abstract]"), OR,
       Term("\"mechanical ventilat*\"[Title/Abstract]"), RP, OR,
       LP, Term("\"mechanical\"[Title/Abstract]"), AND,
           Term("\"ventilation\"[Title/Abstract]"), RP,
       RP >>

HumansTerm == Term("\"humans\"[MeSH Terms]")

HUMANS_FILTER == << HumansTerm >>

SystematicReviewTerm == Term("\"systematic review\"[Publication Type]")

MetaAnalysisTerm == Term("\"Meta-Analysis\"[Publication Type]")

ReviewTerm == Term("\"Review\"[Publication Type]")

EXCLUSION_QUERY ==
    << NOT, LP, SystematicReviewTerm, OR, MetaAnalysisTerm, OR, ReviewTerm, RP >>

\* a date range "from"[PDAT]:"to"[PDAT] is one term of the query language
DATE_QUERY ==
    << LP, Term("\"2020/01/01\"[PDAT]:\"2025/01/01\"[PDAT]"), RP >>

JOURNALS ==
    << <<"T", "h", "e", " ", "N", "e", "w", " ", "E", "n", "g", "l", "a", "n", "d", " ", "J", "o", "u", "r", "n", "a", "l", " ", "o", "f", " ", "M", "e", "d", "i", "c", "i", "n", "e">>,
       <<"L", "a", "n", "c", "e", "t">>,
       <<"J", "A", "M", "A">>,
       <<"A", "m", "e", "r", "i", "c", "a", "n", " ", "J", "o", "u", "r", "n", "a", "l", " ", "o", "f", " ", "R", "e", "s", "p", "i", "r", "a", "t", "o", "r", "y", " ", "a", "n", "d", " ", "C", "r", "i", "t", "i", "c", "a", "l", " ", "C", "a", "r", "e", " ", "M", "e", "d", "i", "c", "i", "n", "e">>,
       <<"I", "n", "t", "e", "n", "s", "i", "v", "e", " ", "C", "a", "r", "e", " ", "M", "e", "d", "i", "c", "i", "n", "e">>,
       <<"C", "r", "i", "t", "i", "c", "a", "l", " ", "C", "a", "r", "e", " ", "M", "e", "d", "i", "c", "i", "n", "e">>,
       <<"C", "r", "i", "t", "i", "c", "a", "l", " ", "c", "a", "r", "e">>,
       <<"C", "h", "e", "s", "t">>,
       <<"B", "M", "J">>,
       <<"A", "n", "n", "a", "l", "s", " ", "o", "f", " ", "I", "n", "t", "e", "n", "s", "i", "v", "e", " ", "c", "a", "r", "e">>,
       <<"J", "A", "M", "A", " ", "I", "n", "t", "e", "r", "n", "a", "l", " ", "M", "e", "d", "i", "c", "i", "n", "e">>,
       <<"J", "A", "M", "A", " ", "N", "e", "t", "w", "o", "r", "k", " ", "O", "p", "e", "n">>,
       <<"A", "n", "n", "a", "l", "s", " ", "o", "f", " ", "t", "h", "e", " ", "A", "m", "e", "r", "i", "c", "a", "n", " ", "T", "h", "o", "r", "a", "c", "i", "c", " ", "S", "o", "c", "i", "e", "t", "y">> >>

(***************************************************************************)
(* PubMedScraper.construct_query                                           *)
(***************************************************************************)
\* f'"{journal}"[Journal]'
JournalTerm(name) == [k |-> "term", txt |-> "[Journal]", name |-> name]

AnnalsLower == <<"a", "n", "n", "a", "l", "s", " ", "o", "f", " ", "i", "n", "t", "e", "n", "s", "i", "v", "e", " ", "c", "a", "r", "e">>

construct_query(name) ==
    << LP >> \o RCT_QUERY \o << AND >> \o CRITICAL_QUERY
        \o << AND, LP, JournalTerm(name), RP, AND >> \o DATE_QUERY
        \o (IF Lower(name) = AnnalsLower
            THEN << RP >>
            ELSE << AND >> \o HUMANS_FILTER \o << RP >>)
        \o << NOT >> \o EXCLUSION_QUERY

(***************************************************************************)
(* MEDLINE values and raw records                                          *)
(***************************************************************************)
Absent == [type |-> "absent", s |-> <<>>, l |-> <<>>]

Str(chars) == [type |-> "str", s |-> chars, l |-> <<>>]

List(items) == [type |-> "list", s |-> <<>>, l |-> items]

Tags == {"JT", "TA", "TI", "DP", "IP", "VI", "PG", "AU", "AD", "LID", "AID", "PMID"}

\* Python truthiness of a str or a list
Truthy(v) == (v.type = "str" /\ v.s # <<>>) \/ (v.type = "list" /\ v.l # <<>>)

\* rec.get(tag, default)
Get(rec, tag, default) == IF rec[tag].type = "absent" THEN default ELSE rec[tag]

\* v[0]: the first character of a str, the first entry of a list
First(v) == IF v.type = "str" THEN Str(<< v.s[1] >>) ELSE Str(v.l[1])

\* v[-1]
Last(v) == IF v.type = "str" THEN Str(<< v.s[Len(v.s)] >>) ELSE Str(v.l[Len(v.l)])

Min(S) == CHOOSE x \in S : \A y \in S : x <= y

Digits == {"0", "1", "2", "3", "4", "5", "6", "7", "8", "9"}

Whitespace == {" ", "\t", "\n", "\r", "\f"}

\* `needle in s` for two str
OccursAt(s, needle, p) ==
    /\ p >= 1
    /\ p + Len(needle) - 1 <= Len(s)
    /\ \A k \in 1..Len(needle) : s[p + k - 1] = needle[k]

Contains(s, needle) == \E p \in 1..(Len(s) + 1) : OccursAt(s, needle, p)

\* s.split(sep)[0]
SplitFirst(s, sep) ==
    IF Contains(s, sep)
    THEN SubSeq(s, 1, Min({p \in 1..(Len(s) + 1) : OccursAt(s, sep, p)}) - 1)
    ELSE s

\* re.search(r"\d{4}", dp): where the leftmost four consecutive digits start
YearStarts(dp) == {p \in 1..(Len(dp) - 3) : \A k \in 0..3 : dp[p + k] \in Digits}

\* a bug: re.match in place of re.search, the digits are looked for at the start only
YearOfAnchored(dp) == IF 1 \in YearStarts(dp) THEN SubSeq(dp, 1, 4) ELSE <<>>

YearOf(dp) ==
    IF YearStarts(dp) = {} THEN <<>>
    ELSE SubSeq(dp, Min(YearStarts(dp)), Min(YearStarts(dp)) + 3)

\* re.search(r"(10\.\S+)", lid): "10." and at least one non-whitespace character
DoiStarts(lid) ==
    {p \in 1..(Len(lid) - 3) :
        /\ OccursAt(lid, <<"1", "0", ".">>, p)
        /\ lid[p + 3] \notin Whitespace}

\* \S+ is greedy: the match runs to the next whitespace or to the end
DoiEnd(lid, p) ==
    Min({e \in (p + 3)..Len(lid) : e = Len(lid) \/ lid[e + 1] \in Whitespace})

DoiSearch(lid) ==
    IF DoiStarts(lid) = {} THEN <<>>
    ELSE SubSeq(lid, Min(DoiStarts(lid)), DoiEnd(lid, Min(DoiStarts(lid))))

DoiMarker == <<"[", "d", "o", "i", "]">>

DoiSeparator == <<" ", "[", "d", "o", "i", "]">>

\* lines 124-133: the DOI of the AID field, a list or a single str
AidDoi(aids) ==
    IF aids.type = "list"
    THEN LET hits == {k \in DOMAIN aids.l : Contains(aids.l[k], DoiMarker)}
         IN  IF hits = {} THEN <<>> ELSE SplitFirst(aids.l[Min(hits)], DoiSeparator)
    ELSE IF Contains(aids.s, DoiMarker) THEN SplitFirst(aids.s, DoiSeparator) ELSE <<>>

\* lines 117-133
DoiOf(rec) ==
    LET lid == Get(rec, "LID", Str(<<>>))
        doi == IF Truthy(lid) THEN DoiSearch(lid.s) ELSE <<>>
    IN  IF doi = <<>> /\ rec["AID"].type # "absent" THEN AidDoi(rec["AID"]) ELSE doi

LINK_PREFIX == <<"h", "t", "t", "p", "s", ":", "/", "/", "p", "u", "b", "m", "e", "d", ".", "n", "c", "b", "i", ".", "n", "l", "m", ".", "n", "i", "h", ".", "g", "o", "v", "/">>

RECURSIVE ReprItems(_)
\* the items of repr(list of str), quoted and joined by ", "
ReprItems(items) ==
    IF items = <<>> THEN <<>>
    ELSE <<"'">> \o Head(items) \o <<"'">>
         \o (IF Len(items) > 1 THEN <<",", " ">> ELSE <<>>) \o ReprItems(Tail(items))

\* what "{pmid}" formats to
FormatValue(v) == IF v.type = "str" THEN v.s ELSE <<"[">> \o ReprItems(v.l) \o <<"]">>

\* lines 135-136
LinkOf(rec) ==
    LET pmid == Get(rec, "PMID", Str(<<>>))
    IN  IF Truthy(pmid) THEN Str(LINK_PREFIX \o FormatValue(pmid) \o <<"/">>) ELSE Str(<<>>)

OUTPUT_HEADERS ==
    << "Journal_TTL", "Journal_ABBRV", "Title", "Year", "Pages", "Issue", "Volume",
       "First Author", "First Author Affiliation", "Last Author",
       "Last Author Affiliation", "DOI", "Link", "Authors" >>

HeaderSet == {OUTPUT_HEADERS[k] : k \in DOMAIN OUTPUT_HEADERS}

\* a bug: rec["DP"] in place of rec.get("DP", ""), a KeyError when DP is absent
RaisesKeyError(rec) ==
    \/ rec["DP"].type # "str"
    \/ rec["LID"].type = "list" /\ rec["LID"].l # <<>>

\* re.search raises TypeError on a value that is not a str: DP (any list), and LID
\* (a non-empty list; an empty one is falsy and skipped)
Raises(rec) ==
    \/ rec["DP"].type = "list"
    \/ rec["LID"].type = "list" /\ rec["LID"].l # <<>>

\* lines 97-153: the dict of the return statement
Row(rec) ==
    LET authors == Get(rec, "AU", List(<<>>))
        affiliations == Get(rec, "AD", Str(<<>>))
    IN  ("Journal_TTL" :> Get(rec, "JT", Str(<<>>)))
        @@ ("Journal_ABBRV" :> Get(rec, "TA", Str(<<>>)))
        @@ ("Title" :> Get(rec, "TI", Str(<<>>)))
        @@ ("Year" :> Str(YearOf(Get(rec, "DP", Str(<<>>)).s)))
        @@ ("Pages" :> Get(rec, "PG", Str(<<>>)))
        @@ ("Issue" :> Get(rec, "IP", Str(<<>>)))
        @@ ("Volume" :> Get(rec, "VI", Str(<<>>)))
        @@ ("First Author" :> IF Truthy(authors) THEN First(authors) ELSE Str(<<>>))
        @@ ("First Author Affiliation" :>
                IF Truthy(affiliations) THEN First(affiliations) ELSE Str(<<>>))
        @@ ("Last Author" :> IF Truthy(authors) THEN Last(authors) ELSE Str(<<>>))
        @@ ("Last Author Affiliation" :>
                IF Truthy(affiliations) THEN Last(affiliations) ELSE Str(<<>>))
        @@ ("DOI" :> Str(DoiOf(rec)))
        @@ ("Link" :> LinkOf(rec))
        @@ ("Authors" :> authors)

\* the {} of the except branch
EmptyDict == [h \in {} |-> Absent]

process_record(rec) == IF Raises(rec) THEN EmptyDict ELSE Row(rec)

(***************************************************************************)
(* What the Search and Fetch Service may answer during a run.  retmax      *)
(* (line 61) is handed to the Search Service and read nowhere else; the    *)
(* ids and records one call returns are bounded by MaxIds and MaxRecs, the *)
(* records fetched in a whole run by MaxRows.                              *)
(***************************************************************************)
MaxIds == 1

MaxRecs == 2

MaxRows == 3

EmptyRec == [t \in Tags |-> Absent]

FullRec ==
    [t \in Tags |->
        CASE t = "JT" -> Str(<<"L", "a", "n", "c", "e", "t">>)
          [] t = "TA" -> Str(<<"L", "a", "n", "c", "e", "t">>)
          [] t = "TI" -> Str(<<"T">>)
          [] t = "DP" -> Str(<<"2", "0", "2", "1", " ", "J", "u", "n">>)
          [] t = "IP" -> Str(<<"1">>)
          [] t = "VI" -> Str(<<"2">>)
          [] t = "PG" -> Str(<<"3", "-", "4">>)
          [] t = "AU" -> List(<< <<"D", "o", "e", " ", "A">>, <<"L", "e", "e", " ", "K">> >>)
          [] t = "AD" -> List(<< <<"X">>, <<"Y">> >>)
          [] t = "LID" -> Str(<<"1", "0", ".", "1", "/", "x", " ", "[", "d", "o", "i", "]">>)
          [] t = "AID" -> List(<< <<"p", " ", "[", "p", "i", "i", "]">>, <<"1", "0", ".", "1", "/", "x", " ", "[", "d", "o", "i", "]">> >>)
          [] t = "PMID" -> Str(<<"7">>)]

\* a record process_record cannot normalize: DP is a list
MalformedRec == [EmptyRec EXCEPT !["DP"] = List(<< <<"2", "0", "2", "1">> >>)]

RunRecords == {EmptyRec, FullRec, MalformedRec}

Pmids == {<<"7">>}

IdLists == UNION {[1..n -> Pmids] : n \in 0..MaxIds}

RecordLists == UNION {[1..n -> RunRecords] : n \in 0..MaxRecs}

(***************************************************************************)
(* PubMedScraper.run, fetch_records and update_excel, step by step         *)
(***************************************************************************)
NoFile == [exists |-> FALSE, rows |-> <<>>]

Init ==
    /\ pc = "for"
    /\ i = 0
    /\ journal = <<>>
    /\ query = <<>>
    /\ pmid_list = <<>>
    /\ records = <<>>
    /\ r = 1
    /\ all_data = <<>>
    /\ excel_file \in {NoFile, [exists |-> TRUE, rows |-> << Row(FullRec) >>]}
    /\ base = <<>>
    /\ searched = <<>>
    /\ esearch_calls = 0
    /\ efetch_calls = 0
    /\ failed = FALSE
    /\ sink_calls = <<>>

\* line 185: the for loop takes the next journal
ForJournal ==
    /\ pc = "for"
    /\ i < Len(JOURNALS)
    /\ i' = i + 1
    /\ journal' = JOURNALS[i + 1]
    /\ pc' = "construct"
    /\ base' = all_data
    /\ esearch_calls' = 0
    /\ efetch_calls' = 0
    /\ failed' = FALSE
    /\ UNCHANGED <<query, pmid_list, records, r, all_data, excel_file, searched,
                   sink_calls>>

\* line 185: the journal list is exhausted
ForExhausted ==
    /\ pc = "for"
    /\ i = Len(JOURNALS)
    /\ pc' = "excel"
    /\ UNCHANGED <<i, journal, query, pmid_list, records, r, all_data, excel_file,
                   base, searched, esearch_calls, efetch_calls, failed, sink_calls>>

\* line 188
ConstructQuery ==
    /\ pc = "construct"
    /\ query' = construct_query(journal)
    /\ pc' = "esearch"
    /\ UNCHANGED <<i, journal, pmid_list, records, r, all_data, excel_file, base,
                   searched, esearch_calls, efetch_calls, failed, sink_calls>>

\* a bug: the except branch of fetch_records calls the service again
EsearchRetry ==
    /\ pc = "esearch"
    /\ esearch_calls' = esearch_calls + 1
    /\ searched' = Append(searched, journal)
    /\ \E raised \in BOOLEAN, ids \in IdLists :
          /\ failed' = (failed \/ raised)
          /\ pmid_list' = IF raised THEN <<>> ELSE ids
          /\ records' = <<>>
          /\ pc' = IF raised THEN "esearch" ELSE IF ids = <<>> THEN "check" ELSE "efetch"
    /\ UNCHANGED <<i, journal, query, r, all_data, excel_file, base, efetch_calls,
                   sink_calls>>

\* lines 70-77 and 85-87: esearch and Entrez.read return an IdList or raise
Esearch ==
    /\ pc = "esearch"
    /\ esearch_calls' = esearch_calls + 1
    /\ searched' = Append(searched, journal)
    /\ \E raised \in BOOLEAN, ids \in IdLists :
          /\ failed' = raised
          /\ pmid_list' = IF raised THEN <<>> ELSE ids
          /\ records' = <<>>
          /\ pc' = IF raised \/ ids = <<>> THEN "check" ELSE "efetch"
    /\ UNCHANGED <<i, journal, query, r, all_data, excel_file, base, efetch_calls,
                   sink_calls>>

\* lines 79-87: efetch and Medline.parse return the records or raise
Efetch ==
    /\ pc = "efetch"
    /\ efetch_calls' = efetch_calls + 1
    /\ \E raised \in BOOLEAN, recs \in RecordLists :
          /\ Len(all_data) + Len(recs) <= MaxRows
          /\ failed' = raised
          /\ records' = IF raised THEN <<>> ELSE recs
    /\ pc' = "check"
    /\ UNCHANGED <<i, journal, query, pmid_list, r, all_data, excel_file, base,
                   searched, esearch_calls, sink_calls>>

\* a bug: the sink is written for a journal that gave no records
CheckRecordsFlush ==
    /\ pc = "check"
    /\ pc' = IF records = <<>> THEN "for" ELSE "process"
    /\ r' = 1
    /\ sink_calls' = IF records = <<>> THEN Append(sink_calls, all_data) ELSE sink_calls
    /\ UNCHANGED <<i, journal, query, pmid_list, records, all_data, excel_file, base,
                   searched, esearch_calls, efetch_calls, failed>>

\* lines 193-198: `if not records: continue`, else the inner loop starts
CheckRecords ==
    /\ pc = "check"
    /\ pc' = IF records = <<>> THEN "for" ELSE "process"
    /\ r' = 1
    /\ UNCHANGED <<i, journal, query, pmid_list, records, all_data, excel_file, base,
                   searched, esearch_calls, efetch_calls, failed, sink_calls>>

\* a bug: the result of process_record is appended without `if processed`
ProcessRecordNoCheck ==
    /\ pc = "process"
    /\ r <= Len(records)
    /\ all_data' = Append(all_data, process_record(records[r]))
    /\ r' = r + 1
    /\ UNCHANGED <<pc, i, journal, query, pmid_list, records, excel_file, base,
                   searched, esearch_calls, efetch_calls, failed, sink_calls>>

\* lines 198-201: one turn of the inner loop
ProcessRecord ==
    /\ pc = "process"
    /\ r <= Len(records)
    /\ LET processed == process_record(records[r])
       IN  all_data' = IF DOMAIN processed # {}
                       THEN Append(all_data, processed)
                       ELSE all_data
    /\ r' = r + 1
    /\ UNCHANGED <<pc, i, journal, query, pmid_list, records, excel_file, base,
                   searched, esearch_calls, efetch_calls, failed, sink_calls>>

\* line 198: the inner loop ends
EndProcess ==
    /\ pc = "process"
    /\ r > Len(records)
    /\ pc' = "for"
    /\ UNCHANGED <<i, journal, query, pmid_list, records, r, all_data, excel_file,
                   base, searched, esearch_calls, efetch_calls, failed, sink_calls>>

\* pd.DataFrame(data, columns=config.OUTPUT_HEADERS): one cell per header
Frame(data) ==
    [n \in DOMAIN data |->
        [h \in HeaderSet |-> IF h \in DOMAIN data[n] THEN data[n][h] ELSE Absent]]

\* lines 159-177 and 203: update_excel(self.all_data); a failure to read or
\* write is caught and logged, and leaves the file as it was
UpdateExcel ==
    /\ pc = "excel"
    /\ sink_calls' = Append(sink_calls, all_data)
    /\ \E raised \in BOOLEAN :
          excel_file' = IF raised THEN excel_file
                        ELSE [exists |-> TRUE, rows |-> excel_file.rows \o Frame(all_data)]
    /\ pc' = "done"
    /\ UNCHANGED <<i, journal, query, pmid_list, records, r, all_data, base, searched,
                   esearch_calls, efetch_calls, failed>>

Next ==
    \/ ForJournal
    \/ ForExhausted
    \/ ConstructQuery
    \/ Esearch
    \/ Efetch
    \/ CheckRecords
    \/ ProcessRecord
    \/ EndProcess
    \/ UpdateExcel

Spec == Init /\ [][Next]_vars

(***************************************************************************)
(* construct_query on any journal name: the run stands at line 188 with    *)
(* `journal` bound to a name of a journal list that could be configured    *)
(***************************************************************************)
MaxUpper == 6

\* "annals of intensive care" with any of its first MaxUpper letters in upper case
AnnalsVariants ==
    { [n \in 1..Len(AnnalsLower) |->
          IF n \in S THEN UpperChar(AnnalsLower[n]) ELSE AnnalsLower[n]] :
      S \in SUBSET (1..MaxUpper) }

OtherNames ==
    { <<"A", "n", "n", "a", "l", "s", " ", "o", "f", " ", "I", "n", "t", "e", "n", "s", "i", "v", "e", " ", "C", "a", "r", "e">>, <<"A", "N", "N", "A", "L", "S", " ", "O", "F", " ", "I", "N", "T", "E", "N", "S", "I", "V", "E", " ", "C", "A", "R", "E">>,
      <<"A", "n", "n", "a", "l", "s", " ", "o", "f", " ", "I", "n", "t", "e", "n", "s", "i", "v", "e", " ", "C", "a", "r">>, <<"A", "n", "n", "a", "l", "s", " ", "o", "f", " ", "I", "n", "t", "e", "n", "s", "i", "v", "e", " ", "C", "a", "r", "e", " ">>,
      <<" ", "A", "n", "n", "a", "l", "s", " ", "o", "f", " ", "I", "n", "t", "e", "n", "s", "i", "v", "e", " ", "C", "a", "r", "e">>, <<"A", "n", "n", "a", "l", "s", " ", " ", "o", "f", " ", "I", "n", "t", "e", "n", "s", "i", "v", "e", " ", "C", "a", "r", "e">>,
      <<"A", "n", "n", "a", "l", "s", " ", "o", "f", " ", "I", "n", "t", "e", "n", "s", "i", "v", "e", " ", "C", "a", "r", "e", " ", "M", "e", "d", "i", "c", "i", "n", "e">>, <<"A", "n", "n", "a", "l", "s">>, <<"a">>, <<>> }

JournalNames == {JOURNALS[n] : n \in DOMAIN JOURNALS} \cup AnnalsVariants \cup OtherNames

InitQuery ==
    /\ pc = "construct"
    /\ i = 1
    /\ journal \in JournalNames
    /\ query = <<>>
    /\ pmid_list = <<>>
    /\ records = <<>>
    /\ r = 1
    /\ all_data = <<>>
    /\ excel_file = NoFile
    /\ base = <<>>
    /\ searched = <<>>
    /\ esearch_calls = 0
    /\ efetch_calls = 0
    /\ failed = FALSE
    /\ sink_calls = <<>>

NextQuery == ConstructQuery

SpecQuery == InitQuery /\ [][NextQuery]_vars

\* the query of the current journal has been built
Built == pc = "esearch"

\* opening minus closing parentheses among the first n tokens
Depth(q, n) ==
    Cardinality({m \in 1..n : q[m] = LP}) - Cardinality({m \in 1..n : q[m] = RP})

Balanced(q) == (\A n \in 1..Len(q) : Depth(q, n) >= 0) /\ Depth(q, Len(q)) = 0

Operators == {AND, OR, NOT}

\* AND and OR stand between two operands; NOT stands before one (a NOT may itself
\* follow an operator)
OperandsPresent(q) ==
    \A n \in 1..Len(q) :
        /\ q[n] \in Operators =>
              n < Len(q) /\ (q[n + 1].k = "term" \/ q[n + 1] \in {LP, NOT})
        /\ q[n] \in {AND, OR} => n > 1 /\ (q[n - 1].k = "term" \/ q[n - 1] = RP)

\* where the group opened by the first token closes (0: it never does)
MainClose(q) ==
    IF q # <<>> /\ q[1] = LP /\ \E n \in 1..Len(q) : Depth(q, n) = 0
    THEN Min({n \in 1..Len(q) : Depth(q, n) = 0})
    ELSE 0

ExclusionGroup ==
    << LP, SystematicReviewTerm, OR, MetaAnalysisTerm, OR, ReviewTerm, RP >>

HumansAt(q) == {n \in 1..Len(q) : q[n] = HumansTerm}

\* C4: for every journal name, the query construct_query returns is a well-formed
\* boolean query: no prefix closes more parentheses than it opened, the
\* parentheses balance at the end, and every operator has its operands.
C4_QueryWellFormed == Built => Balanced(query) /\ OperandsPresent(query)

\* C5: for every journal name, the query ends with NOT (exclusion group), the group
\* is negated by exactly one NOT, and that NOT stands after the closing parenthesis
\* of the group the query's first parenthesis opens.
C5_SingleNotAfterMainGroup ==
    Built =>
        LET n == Len(query) - Len(ExclusionGroup)
        IN  /\ n >= 2
            /\ SubSeq(query, n + 1, Len(query)) = ExclusionGroup
            /\ query[n] = NOT
            /\ query[n - 1] # NOT
            /\ MainClose(query) > 0
            /\ MainClose(query) < n

\* C6: construct_query leaves the humans clause out exactly for the names that equal
\* "annals of intensive care" when lowered; for every other name the clause is ANDed
\* in inside the main group, before the group's closing parenthesis.
C6_HumansInsideMainGroup ==
    Built =>
        /\ (HumansAt(query) = {}) <=> (Lower(journal) = AnnalsLower)
        /\ \A n \in HumansAt(query) :
              /\ query[n - 1] = AND
              /\ n < MainClose(query)

\* The part of C6 that the code keeps: the clause is missing exactly for the names
\* that lower to "annals of intensive care", and where present it follows an AND and
\* is followed by the closing parenthesis the template writes.
HumansOmittedOnlyForAnnals ==
    Built =>
        /\ (HumansAt(query) = {}) <=> (Lower(journal) = AnnalsLower)
        /\ \A n \in HumansAt(query) : query[n - 1] = AND /\ query[n + 1] = RP

(***************************************************************************)
(* process_record on one fetched record: the run stands at line 198 with   *)
(* the record as the only one the Fetch Service returned for the journal   *)
(***************************************************************************)
StringsUpTo(alphabet, n) == UNION {[1..m -> alphabet] : m \in 0..n}

RECURSIVE Concats(_, _)
\* the concatenations of at most n of the given pieces
Concats(pieces, n) ==
    IF n = 0 THEN {<<>>}
    ELSE Concats(pieces, n - 1)
         \cup {a \o p : a \in Concats(pieces, n - 1), p \in pieces}

InitRecord(recs) ==
    /\ pc = "process"
    /\ i = 1
    /\ journal = JOURNALS[1]
    /\ query = construct_query(JOURNALS[1])
    /\ pmid_list = << <<"7">> >>
    /\ records \in {<< rec >> : rec \in recs}
    /\ r = 1
    /\ all_data = <<>>
    /\ excel_file = NoFile
    /\ base = <<>>
    /\ searched = << JOURNALS[1] >>
    /\ esearch_calls = 1
    /\ efetch_calls = 1
    /\ failed = FALSE
    /\ sink_calls = <<>>

NextRecord == ProcessRecord

\* the record has gone through lines 199-201
Processed == pc = "process" /\ Len(records) = 1 /\ r = 2

\* ... and gave a row
Normalized == Processed /\ Len(all_data) = 1

(*************************** the DP field: Year ****************************)
MaxDP == 5

DPAlphabet == {"1", "2", " ", "J"}

YearRecs ==
    {[EmptyRec EXCEPT !["DP"] = Str(s)] : s \in StringsUpTo(DPAlphabet, MaxDP)}
        \cup {EmptyRec, MalformedRec}

InitYear == InitRecord(YearRecs)

SpecYear == InitYear /\ [][NextRecord]_vars

\* where a maximal run of digits starts
RunStarts(s) == {p \in 1..Len(s) : s[p] \in Digits /\ (p = 1 \/ s[p - 1] \notin Digits)}

\* the length of the maximal run of digits that starts at p
RunLen(s, p) ==
    Min({n \in 1..(Len(s) - p + 1) : p + n > Len(s) \/ s[p + n] \notin Digits})

DpOf(rec) == Get(rec, "DP", Str(<<>>)).s

\* C7, as amended: Year is the first four digits of the leftmost run of at least
\* four digits of DP, wherever the run stands and however long it is; it is empty
\* when DP is absent or holds no run of at least four digits.
C7_YearFirstFourDigits ==
    Normalized =>
        LET dp == DpOf(records[1])
            long == {p \in RunStarts(dp) : RunLen(dp, p) >= 4}
        IN  all_data[1]["Year"] =
                IF long = {} THEN Str(<<>>) ELSE Str(SubSeq(dp, Min(long), Min(long) + 3))

\* a year found behind other text ("J2021"), and one cut out of a longer run
C7_YearWitness ==
    /\ Normalized
    /\ all_data[1]["Year"] # Str(<<>>)
    /\ DpOf(records[1])[1] \notin Digits

\* C7, as claimed: Year is the first run of exactly four digits of DP; a run of any
\* other length supplies no year, and Year is empty when there is no such run.
C7_YearExactlyFourDigits ==
    Normalized =>
        LET dp == DpOf(records[1])
            exact == {p \in RunStarts(dp) : RunLen(dp, p) = 4}
        IN  all_data[1]["Year"] =
                IF exact = {} THEN Str(<<>>)
                ELSE Str(SubSeq(dp, Min(exact), Min(exact) + 3))

(************************ the AD field: affiliations ***********************)
MaxAD == 3

MaxADEntry == 2

MaxADList == 2

ADAlphabet == {"D", "e", " "}

ADEntries == StringsUpTo({"D", "e"}, MaxADEntry)

ADValues ==
    {Absent}
        \cup {Str(s) : s \in StringsUpTo(ADAlphabet, MaxAD)}
        \cup {List(l) : l \in UNION {[1..n -> ADEntries] : n \in 0..MaxADList}}

AffilRecs == {[FullRec EXCEPT !["AD"] = v] : v \in ADValues}

InitAffil == InitRecord(AffilRecs)

SpecAffil == InitAffil /\ [][NextRecord]_vars

\* C10: the two affiliations are the first and the last element of AD taken as a
\* sequence: of the list when AD is a list, of the one-element sequence [s] when AD
\* is a single non-empty string s (both are then s), and both are empty when AD is
\* absent.
C10_ScalarAffiliationWhole ==
    Normalized =>
        LET ad == records[1]["AD"]
            entries == IF ad.type = "list" THEN ad.l
                       ELSE IF ad.type = "str" /\ ad.s # <<>> THEN << ad.s >>
                       ELSE <<>>
            row == all_data[1]
        IN  /\ row["First Author Affiliation"] =
                  IF entries = <<>> THEN Str(<<>>) ELSE Str(entries[1])
            /\ row["Last Author Affiliation"] =
                  IF entries = <<>> THEN Str(<<>>) ELSE Str(entries[Len(entries)])

\* The part of C10 that the code keeps: a list AD gives its first and last entry,
\* an absent or empty AD gives two empty strings.
ListAffiliationEnds ==
    Normalized =>
        LET ad == records[1]["AD"]
            row == all_data[1]
        IN  /\ ad.type = "list" /\ ad.l # <<>> =>
                  /\ row["First Author Affiliation"] = Str(ad.l[1])
                  /\ row["Last Author Affiliation"] = Str(ad.l[Len(ad.l)])
            /\ ~Truthy(ad) =>
                  /\ row["First Author Affiliation"] = Str(<<>>)
                  /\ row["Last Author Affiliation"] = Str(<<>>)

(************************ the LID and AID fields: DOI **********************)
MaxLidPieces == 3

MaxAidPieces == 3

MaxAidList == 2

LidPieces == {<<"1", "0", ".">>, <<"x">>, <<" ">>, <<"[", "d", "o", "i", "]">>}

AidPieces == {<<"x">>, <<" ">>, <<"[", "d", "o", "i", "]">>}

AidListEntries ==
    {<<"x", " ", "[", "d", "o", "i", "]">>, <<"y", "[", "d", "o", "i", "]">>, <<"p", " ", "[", "p", "i", "i", "]">>, <<" ", "[", "d", "o", "i", "]">>, <<"z", " ", "[", "d", "o", "i", "]", " ", "[", "d", "o", "i", "]">>}

LidValues == {Absent} \cup {Str(s) : s \in Concats(LidPieces, MaxLidPieces)}

AidValues ==
    {Absent}
        \cup {Str(s) : s \in Concats(AidPieces, MaxAidPieces)}
        \cup {List(l) : l \in UNION {[1..n -> AidListEntries] : n \in 0..MaxAidList}}

DoiRecs ==
    {[EmptyRec EXCEPT !["LID"] = lid, !["AID"] = aid] :
        lid \in LidValues, aid \in {Absent, List(<< <<"p", " ", "[", "p", "i", "i", "]">>, <<"x", " ", "[", "d", "o", "i", "]">> >>)}}
    \cup
    {[EmptyRec EXCEPT !["LID"] = lid, !["AID"] = aid] :
        lid \in {Absent, Str(<<"x">>), Str(<<"1", "0", ".", " ">>)}, aid \in AidValues}

InitDoi == InitRecord(DoiRecs)

SpecDoi == InitDoi /\ [][NextRecord]_vars

\* s[p..e] reads "10." followed by one or more non-whitespace characters
IsDoiShaped(s, p, e) ==
    /\ OccursAt(s, <<"1", "0", ".">>, p)
    /\ p + 3 <= e
    /\ e <= Len(s)
    /\ \A n \in (p + 3)..e : s[n] \notin Whitespace

HasDoiShaped(s) == \E p \in 1..Len(s), e \in 1..Len(s) : IsDoiShaped(s, p, e)

\* the text of an entry before its first "[doi]"
BeforeMarker(entry) ==
    SubSeq(entry, 1, Min({p \in 1..Len(entry) : OccursAt(entry, DoiMarker, p)}) - 1)

\* the same text without the blank that separates it from the marker
WithoutTrailingBlank(s) ==
    IF s # <<>> /\ s[Len(s)] = " " THEN SubSeq(s, 1, Len(s) - 1) ELSE s

\* C8: the DOI is resolved in two ordered stages.  If LID holds "10." followed by
\* non-whitespace characters the DOI is such a substring of LID and AID is not
\* consulted; otherwise the DOI is the text before the "[doi]" marker of the first
\* AID entry (AID a single string or a list) that holds the marker; it is empty
\* when neither stage matches.  (The blank between text and marker may be counted
\* to either side.)
C8_DoiTwoStage ==
    Normalized =>
        LET lid == Get(records[1], "LID", Str(<<>>))
            aid == records[1]["AID"]
            entries == IF aid.type = "list" THEN aid.l
                       ELSE IF aid.type = "str" THEN << aid.s >> ELSE <<>>
            hits == {n \in DOMAIN entries : Contains(entries[n], DoiMarker)}
            doi == all_data[1]["DOI"].s
        IN  /\ all_data[1]["DOI"].type = "str"
            /\ IF lid.type = "str" /\ HasDoiShaped(lid.s)
               THEN \E p \in 1..Len(lid.s), e \in 1..Len(lid.s) :
                        IsDoiShaped(lid.s, p, e) /\ doi = SubSeq(lid.s, p, e)
               ELSE IF hits # {}
               THEN doi \in {BeforeMarker(entries[Min(hits)]),
                             WithoutTrailingBlank(BeforeMarker(entries[Min(hits)]))}
               ELSE doi = <<>>

\* The part of C8 that the code keeps: the stage order, with the AID entry cut at
\* its first " [doi]" (blank and marker) and taken whole when the marker follows
\* its text without a blank.
DoiTwoStageAsCoded ==
    Normalized =>
        LET lid == Get(records[1], "LID", Str(<<>>))
            aid == records[1]["AID"]
            entries == IF aid.type = "list" THEN aid.l
                       ELSE IF aid.type = "str" THEN << aid.s >> ELSE <<>>
            hits == {n \in DOMAIN entries : Contains(entries[n], DoiMarker)}
            doi == all_data[1]["DOI"].s
        IN  IF lid.type = "str" /\ HasDoiShaped(lid.s)
            THEN \E p \in 1..Len(lid.s), e \in 1..Len(lid.s) :
                     IsDoiShaped(lid.s, p, e) /\ doi = SubSeq(lid.s, p, e)
            ELSE IF hits # {}
            THEN LET entry == entries[Min(hits)]
                 IN  IF Contains(entry, DoiSeparator)
                     THEN \E p \in 1..Len(entry) :
                              /\ OccursAt(entry, DoiSeparator, p)
                              /\ \A m \in 1..(p - 1) : ~OccursAt(entry, DoiSeparator, m)
                              /\ doi = SubSeq(entry, 1, p - 1)
                     ELSE doi = entry
            ELSE doi = <<>>

(********************** records with fields missing ************************)
\* FullRec with the tags of `missing` left out
Without(missing) == [t \in Tags |-> IF t \in missing THEN Absent ELSE FullRec[t]]

MissingRecs == {Without(missing) : missing \in SUBSET Tags}

InitMissing == InitRecord(MissingRecs)

SpecMissing == InitMissing /\ [][NextRecord]_vars

\* the row fields that are read from a tag alone
FieldsOf(t) ==
    CASE t = "JT" -> {"Journal_TTL"}
      [] t = "TA" -> {"Journal_ABBRV"}
      [] t = "TI" -> {"Title"}
      [] t = "DP" -> {"Year"}
      [] t = "PG" -> {"Pages"}
      [] t = "IP" -> {"Issue"}
      [] t = "VI" -> {"Volume"}
      [] t = "AU" -> {"First Author", "Last Author"}
      [] t = "AD" -> {"First Author Affiliation", "Last Author Affiliation"}
      [] t = "PMID" -> {"Link"}
      [] OTHER -> {}

AbsentTags(rec) == {t \in Tags : rec[t].type = "absent"}

\* C9: a record with any subset of its tags absent (all of them included) is
\* normalized without failure into a row of exactly the fourteen fields of
\* OUTPUT_HEADERS, in which every field of an absent tag is the empty string (the
\* empty list for Authors; DOI when both LID and AID are absent), and the row is
\* appended to all_data.
C9_MissingFieldsDefault ==
    Processed =>
        /\ Len(all_data) = 1
        /\ DOMAIN all_data[1] = HeaderSet
        /\ Cardinality(DOMAIN all_data[1]) = 14
        /\ \A t \in AbsentTags(records[1]) :
              \A h \in FieldsOf(t) : all_data[1][h] = Str(<<>>)
        /\ "AU" \in AbsentTags(records[1]) => all_data[1]["Authors"] = List(<<>>)
        /\ {"LID", "AID"} \subseteq AbsentTags(records[1]) =>
              all_data[1]["DOI"] = Str(<<>>)

\* the record without any tag has given a row, every field of it empty
C9_AllMissingWitness ==
    /\ Processed
    /\ records[1] = EmptyRec
    /\ Len(all_data) = 1
    /\ \A h \in HeaderSet \ {"Authors"} : all_data[1][h] = Str(<<>>)
    /\ all_data[1]["Authors"] = List(<<>>)

(***************************************************************************)
(* The run as a whole                                                      *)
(***************************************************************************)
\* C1: update_excel is called once, when the journal list is exhausted and every
\* configured journal has been searched, with all_data as its argument; it is
\* never called before, whatever was empty or failed on the way.
C1_SinkOnceAtEnd ==
    /\ pc # "done" => sink_calls = <<>>
    /\ pc = "done" =>
          /\ sink_calls = << all_data >>
          /\ i = Len(JOURNALS)
          /\ searched = JOURNALS

\* a run has ended with rows in the sink although its last journal failed
C1_SinkWitness ==
    /\ pc = "done"
    /\ failed
    /\ all_data # <<>>
    /\ sink_calls = << all_data >>

\* C2: once a service has raised for the current journal, fetch_records has given
\* the empty list, all_data still is what it was when the journal was taken,
\* neither service is called a second time for the journal (the run is past both
\* calls, each made at most once), the run can take its next step, and the
\* journals are searched in configuration order, all of them by the end.
C2_ServiceFailureSkipsJournal ==
    /\ failed =>
          /\ pc \in {"check", "for", "excel", "done"}
          /\ records = <<>>
          /\ all_data = base
          /\ esearch_calls = 1
          /\ efetch_calls <= 1
          /\ pc # "done" => ENABLED Next
    /\ searched = SubSeq(JOURNALS, 1, Len(searched))
    /\ pc \in {"excel", "done"} => searched = JOURNALS

\* efetch has raised for a journal that is not the last, with rows of earlier
\* journals accumulated
C2_FetchFailureWitness ==
    /\ failed
    /\ pc = "check"
    /\ efetch_calls = 1
    /\ base # <<>>
    /\ i < Len(JOURNALS)

\* C3: while the records of a journal are normalized, all_data is what it was
\* when the journal was taken followed by one row for each record handled so far
\* whose normalization did not raise, in order: the rows added number the records
\* handled minus those that raised; and every row of all_data has the fourteen
\* fields.
C3_RaisingRecordDropped ==
    /\ pc = "process" =>
          LET handled == SubSeq(records, 1, r - 1)
              Fine(rec) == ~Raises(rec)
              kept == SelectSeq(handled, Fine)
          IN  /\ Len(all_data) - Len(base) =
                    Len(handled) - Cardinality({n \in DOMAIN handled : Raises(handled[n])})
              /\ all_data = base \o [n \in DOMAIN kept |-> Row(kept[n])]
    /\ \A n \in DOMAIN all_data :
          DOMAIN all_data[n] = HeaderSet /\ Cardinality(DOMAIN all_data[n]) = 14

\* a record that raised was followed by one that gave its row
C3_DroppedThenKeptWitness ==
    /\ pc = "process"
    /\ r = 3
    /\ Raises(records[1])
    /\ ~Raises(records[2])
    /\ all_data = Append(base, Row(records[2]))

====
